---- MODULE Spec2Model ----
(***************************************************************************)
(* A model of the pysystemtrade futures raw-data stage                     *)
(* (systems/futures/rawdata.py) and of the walk-forward fitting-date       *)
(* generator (syscore/dateutils.py).                                       *)
(*                                                                         *)
(*   SpecFit : generate_fitting_dates applied to bounded inputs.           *)
(*   SpecExpiry : expiry_date and expiry_diff applied to a row of          *)
(*             contract identifiers.                                       *)
(*   SpecRoll : the carry calculations applied to a bounded carry table.   *)
(*   SpecIo  : the csv data methods called with some files on disk.        *)
(*   SpecStage : all seventeen accessors of FuturesRawData called on an    *)
(*             empty cache, nothing raising.                               *)
(*   Spec    : the FuturesRawData accessors called, in any order, on a     *)
(*             pipeline with one cache.                                    *)
(***************************************************************************)
EXTENDS Integers, Sequences, FiniteSets, TLC

VARIABLES
    data,          \* generate_fitting_dates: the series, or the list of series
    date_method,   \* generate_fitting_dates: the policy token
    rollyears,     \* generate_fitting_dates: the rolling length
    fit_pc,        \* "call" before the call, then "returned" or "raised"
    periods,       \* the list generate_fitting_dates returned
    fit_error,     \* the error generate_fitting_dates raised, or "none"
    cache,         \* pipeline cache: computation-name -> instrument -> value
    calls,         \* how often each calculation function was entered
    raised,        \* how often each calculation function raised
    ds_reads,      \* how often DataSource.get_instrument_raw_carry_data ran
    last_call,     \* the accessor call that ran last, its outcome and the
                   \* computation-names it stored, in the order of storing
    carry_row,     \* expiry_date, expiry_diff: the row of contract identifiers
    expiry_pc,     \* "call" before the call, then "returned" or "raised"
    expiry_op,     \* which of expiry_date and expiry_diff was called
    expiry_date_out,  \* the date expiry_date returned
    expiry_diff_out,  \* the number expiry_diff returned
    carry_table,   \* the carry table of an instrument, a sequence of rows
    roll_pc,       \* "call" before the calculation, then "returned" or "raised"
    roll_op,       \* which calculation ran on carry_table
    roll_out,      \* the series it returned: a set of [t, v], t the row's index
    hours_file,    \* instrument_trading_hours.csv: whether it exists, its rows
    data_files,    \* the instruments whose <code>_data.csv exists
    cost_file,     \* costs_analysis.csv: whether it exists, its rows
    instrument_code,  \* the argument of the data call
    io_pc,         \* "call" before the data call, then "returned" or "raised"
    io_op,         \* which data method was called
    io_ret,        \* the kind of value it returned
    io_error,      \* the exception it raised, or "none"
    io_warnings,   \* the warnings it logged
    cost_out,      \* the dict get_raw_cost_data returned, as <<key, value>> pairs
    protected,     \* the names FuturesRawData.__init__ registered as protected
    stage_calls    \* how many accessor calls were made on the whole stage

vars == <<data, date_method, rollyears, fit_pc, periods, fit_error,
          cache, calls, raised, ds_reads, last_call,
          carry_row, expiry_pc, expiry_op, expiry_date_out, expiry_diff_out,
          carry_table, roll_pc, roll_op, roll_out,
          hours_file, data_files, cost_file, instrument_code,
          io_pc, io_op, io_ret, io_error, io_warnings, cost_out,
          protected, stage_calls>>

fit_vars == <<data, date_method, rollyears, fit_pc, periods, fit_error>>

cache_vars == <<cache, calls, raised, ds_reads, last_call>>

expiry_vars == <<carry_row, expiry_pc, expiry_op, expiry_date_out,
                 expiry_diff_out>>

----------------------------------------------------------------------------
(* Bounds *)

\* the timestamps lie in the years BaseYear .. BaseYear + MaxYears
MaxYears == 3

\* rollyears ranges over 0 .. MaxRollYears
MaxRollYears == 2

\* a series holds at most MaxSeriesLen timestamps
MaxSeriesLen == 2

\* a list of series holds at most MaxListLen series
MaxListLen == 2

\* at most MaxStageCalls accessor calls are made on the whole stage
MaxStageCalls == 2

\* a carry table holds at most MaxRows rows
MaxRows == 2

BaseYear == 2000

----------------------------------------------------------------------------
(* Calendar: a timestamp is <<year, month, day>> *)

IsLeapYear(y) == (y % 4 = 0 /\ y % 100 # 0) \/ y % 400 = 0

DaysInMonth(y, m) ==
    IF m = 2 THEN (IF IsLeapYear(y) THEN 29 ELSE 28)
    ELSE IF m \in {4, 6, 9, 11} THEN 30 ELSE 31

Before(a, b) ==
    \/ a[1] < b[1]
    \/ a[1] = b[1] /\ a[2] < b[2]
    \/ a[1] = b[1] /\ a[2] = b[2] /\ a[3] < b[3]

NotAfter(a, b) == a = b \/ Before(a, b)

MinDate(S) == CHOOSE d \in S : \A e \in S : NotAfter(d, e)

MaxDate(S) == CHOOSE d \in S : \A e \in S : NotAfter(e, d)

\* the same day of the month twelve months later, clamped to the month's end
AddTwelveMonths(d) ==
    LET dim == DaysInMonth(d[1] + 1, d[2])
    IN  <<d[1] + 1, d[2], IF d[3] > dim THEN dim ELSE d[3]>>

----------------------------------------------------------------------------
(* pandas.date_range(start, end, freq="12M"): "M" is the month-end         *)
(* frequency, so the range starts at the first month end on or after       *)
(* start and steps by twelve month ends while it does not pass end.        *)

MonthEndRollForward(d) == <<d[1], d[2], DaysInMonth(d[1], d[2])>>

TwelveMonthEndsLater(d) == <<d[1] + 1, d[2], DaysInMonth(d[1] + 1, d[2])>>

RECURSIVE DateRangeFrom(_, _)
DateRangeFrom(cur, end) ==
    IF Before(end, cur) THEN <<>>
    ELSE <<cur>> \o DateRangeFrom(TwelveMonthEndsLater(cur), end)

date_range_12M(start, end) == DateRangeFrom(MonthEndRollForward(start), end)

----------------------------------------------------------------------------
(* syscore/dateutils.py *)

\* mutant: fit_start and fit_end stored under each other's name
fit_dates_object_swapped(fit_start, fit_end, period_start, period_end, no_data) ==
    [fit_start |-> fit_end, fit_end |-> fit_start,
     period_start |-> period_start, period_end |-> period_end,
     no_data |-> no_data]

\* mutant: the no_data argument is dropped, the flag stays at its default
fit_dates_object_no_flag(fit_start, fit_end, period_start, period_end, no_data) ==
    [fit_start |-> fit_start, fit_end |-> fit_end,
     period_start |-> period_start, period_end |-> period_end,
     no_data |-> FALSE]

fit_dates_object(fit_start, fit_end, period_start, period_end, no_data) ==
    [fit_start |-> fit_start, fit_end |-> fit_end,
     period_start |-> period_start, period_end |-> period_end,
     no_data |-> no_data]

ValidMethods == {"in_sample", "rolling", "expanding"}

\* error is "date_method" for the Exception of line 157 and "index" for the
\* IndexError / ValueError of an index or a list that has no element
Raise(error) == [raised |-> TRUE, periods |-> <<>>, error |-> error]

Return(ps) == [raised |-> FALSE, periods |-> ps, error |-> "none"]

\* the series the call reads: the items of a list, or the one series
SeriesOf(d) == IF d.is_list THEN d.items ELSE <<d.series>>

\* data.index[0] / index[-1] raise on an empty index, min([]) on an empty list
DataReadable(d) ==
    /\ Len(SeriesOf(d)) > 0
    /\ \A i \in 1..Len(SeriesOf(d)) : Len(SeriesOf(d)[i]) > 0

\* mutant: start_date read from index[-1]
start_date_of_last(d) ==
    MinDate({SeriesOf(d)[i][Len(SeriesOf(d)[i])] : i \in 1..Len(SeriesOf(d))})

start_date_of(d) ==
    MinDate({SeriesOf(d)[i][1] : i \in 1..Len(SeriesOf(d))})

\* mutant: end_date is the earliest of the last timestamps (min for max)
end_date_of_min(d) ==
    MinDate({SeriesOf(d)[i][Len(SeriesOf(d)[i])] : i \in 1..Len(SeriesOf(d))})

end_date_of(d) ==
    MaxDate({SeriesOf(d)[i][Len(SeriesOf(d)[i])] : i \in 1..Len(SeriesOf(d))})

\* mutant: end_date is not appended as the final boundary
yearstarts_of_no_end(start_date, end_date) ==
    date_range_12M(start_date, end_date)

yearstarts_of(start_date, end_date) ==
    date_range_12M(start_date, end_date) \o <<end_date>>

\* mutant: expanding takes the rolling branch
fit_start_of_always_rolling(method, ry, start_date, yearstarts, tidx) ==
    LET yearidx_to_use == IF tidx - ry > 0 THEN tidx - ry ELSE 0
    IN  yearstarts[yearidx_to_use + 1]

\* mutant: the rolling window reaches one boundary further back
fit_start_of_off_by_one(method, ry, start_date, yearstarts, tidx) ==
    IF method = "expanding" THEN start_date
    ELSE LET yearidx_to_use == IF tidx - ry - 1 > 0 THEN tidx - ry - 1 ELSE 0
         IN  yearstarts[yearidx_to_use + 1]

\* yearstarts is indexed from 1 here: Python's yearstarts[j] is yearstarts[j+1]
fit_start_of(method, ry, start_date, yearstarts, tidx) ==
    IF method = "expanding" THEN start_date
    ELSE LET yearidx_to_use == IF tidx - ry > 0 THEN tidx - ry ELSE 0
         IN  yearstarts[yearidx_to_use + 1]

loop_periods(method, ry, start_date, yearstarts) ==
    [j \in 1..(Len(yearstarts) - 2) |->
        fit_dates_object(fit_start_of(method, ry, start_date, yearstarts, j),
                         yearstarts[j + 1],
                         yearstarts[j + 1],
                         yearstarts[j + 2],
                         FALSE)]

\* mutant: the data is read before the policy token is checked
generate_fitting_dates_data_first(d, method, ry) ==
    IF ~DataReadable(d) THEN Raise("index")
    ELSE IF method \notin ValidMethods THEN Raise("date_method")
    ELSE LET start_date == start_date_of(d)
             end_date   == end_date_of(d)
         IN  IF method = "in_sample"
             THEN Return(<<fit_dates_object(start_date, end_date,
                                            start_date, end_date, FALSE)>>)
             ELSE LET yearstarts == yearstarts_of(start_date, end_date)
                  IN  IF Len(yearstarts) < 2 THEN Raise("index")
                      ELSE Return(
                             <<fit_dates_object(start_date, start_date,
                                                start_date, yearstarts[2],
                                                TRUE)>>
                             \o loop_periods(method, ry, start_date,
                                             yearstarts))

generate_fitting_dates(d, method, ry) ==
    IF method \notin ValidMethods THEN Raise("date_method")
    ELSE IF ~DataReadable(d) THEN Raise("index")
    ELSE LET start_date == start_date_of(d)
             end_date   == end_date_of(d)
         IN  IF method = "in_sample"
             THEN Return(<<fit_dates_object(start_date, end_date,
                                            start_date, end_date, FALSE)>>)
             ELSE LET yearstarts == yearstarts_of(start_date, end_date)
                  IN  IF Len(yearstarts) < 2 THEN Raise("index") \* yearstarts[1]
                      ELSE Return(
                             <<fit_dates_object(start_date, start_date,
                                                start_date, yearstarts[2],
                                                TRUE)>>
                             \o loop_periods(method, ry, start_date,
                                             yearstarts))

----------------------------------------------------------------------------
(* Inputs of generate_fitting_dates *)

MonthsUsed == {1, 2, 7}

\* the 10th, the 20th and the last day of each month used
Dates == {dt \in (BaseYear..(BaseYear + MaxYears)) \X MonthsUsed \X (1..31) :
            dt[3] \in {10, 20, DaysInMonth(dt[1], dt[2])}}

\* the series of a list are drawn from fewer timestamps
ListDates == {<<BaseYear, 1, 10>>, <<BaseYear + 1, 1, 31>>,
              <<BaseYear + MaxYears, 7, 20>>}

IsSorted(s) == \A i \in 1..(Len(s) - 1) : NotAfter(s[i], s[i + 1])

SeriesOver(D) ==
    {s \in UNION {[1..n -> D] : n \in 0..MaxSeriesLen} : IsSorted(s)}

DataInputs ==
    {[is_list |-> FALSE, series |-> s] : s \in SeriesOver(Dates)}
    \cup {[is_list |-> TRUE, items |-> l] :
            l \in UNION {[1..n -> SeriesOver(ListDates)] : n \in 0..MaxListLen}}

MethodInputs == ValidMethods \cup {"monthly"}

roll_vars == <<carry_table, roll_pc, roll_op, roll_out>>

io_vars == <<hours_file, data_files, cost_file, instrument_code,
             io_pc, io_op, io_ret, io_error, io_warnings, cost_out>>

stage_vars == <<protected, stage_calls>>

----------------------------------------------------------------------------
(* Numbers: a float is the fraction <<numerator, denominator>> with a      *)
(* positive denominator; <<0, 0>> is NaN, <<1, 0>> and <<-1, 0>> are the   *)
(* infinities a float division by zero gives.                              *)

NaN == <<0, 0>>

IsNaN(x) == x = NaN

Float(n) == <<n, 1>>

Abs(n) == IF n < 0 THEN -n ELSE n

\* a / b of two floats
FloatDiv(a, b) ==
    IF IsNaN(a) \/ IsNaN(b) THEN NaN
    ELSE IF b[1] = 0
         THEN (IF a[1] = 0 THEN NaN
               ELSE IF a[1] < 0 THEN <<-1, 0>> ELSE <<1, 0>>)
         ELSE IF b[1] < 0 THEN <<-(a[1] * b[2]), a[2] * (-b[1])>>
              ELSE <<a[1] * b[2], a[2] * b[1]>>

\* a - b of two floats with the same denominator
FloatSub(a, b) ==
    IF IsNaN(a) \/ IsNaN(b) THEN NaN ELSE <<a[1] - b[1], a[2]>>

----------------------------------------------------------------------------
(* syscore/dateutils.py: expiry_date and expiry_diff.  A str is the        *)
(* sequence of its characters.                                             *)

\* 365.25
CALENDAR_DAYS_IN_YEAR == <<1461, 4>>

Str(chars) == [kind |-> "str", chars |-> chars, date |-> <<0, 0, 0>>]

Datetime(d) == [kind |-> "datetime", chars |-> <<>>, date |-> d]

\* an identifier that is neither a str nor a date, such as an int
OtherIdent == [kind |-> "other", chars |-> <<>>, date |-> <<0, 0, 0>>]

EmptyStr == Str(<<>>)

DigitChars == <<"0", "1", "2", "3", "4", "5", "6", "7", "8", "9">>

IsDigit(c) == \E i \in 1..10 : DigitChars[i] = c

DigitValue(c) == (CHOOSE i \in 1..10 : DigitChars[i] = c) - 1

ExpiryRaise == [raised |-> TRUE, date |-> <<0, 0, 0>>]

ExpiryReturn(d) == [raised |-> FALSE, date |-> d]

\* %Y is \d\d\d\d
MatchesYear(c, i) == \A j \in i..(i + 3) : IsDigit(c[j])

\* %m is 1[0-2]|0[1-9]|[1-9]; a one-digit month leaves a character of the
\* identifier unconverted, which strptime refuses
MatchesMonth(c, i) ==
    \/ c[i] = "1" /\ c[i + 1] \in {"0", "1", "2"}
    \/ c[i] = "0" /\ IsDigit(c[i + 1]) /\ c[i + 1] # "0"

\* %d is 3[0-1]|[1-2]\d|0[1-9]|[1-9]| [1-9]
MatchesDay(c, i) ==
    \/ c[i] = "3" /\ c[i + 1] \in {"0", "1"}
    \/ c[i] \in {"1", "2"} /\ IsDigit(c[i + 1])
    \/ c[i] \in {"0", " "} /\ IsDigit(c[i + 1]) /\ c[i + 1] # "0"

YearValue(c) ==
    1000 * DigitValue(c[1]) + 100 * DigitValue(c[2])
        + 10 * DigitValue(c[3]) + DigitValue(c[4])

TwoDigitValue(c, i) ==
    (IF c[i] = " " THEN 0 ELSE 10 * DigitValue(c[i])) + DigitValue(c[i + 1])

\* datetime.datetime.strptime(s, "%Y%m") for a str of length 6
strptime_Ym(c) ==
    IF ~(MatchesYear(c, 1) /\ MatchesMonth(c, 5)) THEN ExpiryRaise
    ELSE IF YearValue(c) < 1 THEN ExpiryRaise
    ELSE ExpiryReturn(<<YearValue(c), TwoDigitValue(c, 5), 1>>)

\* datetime.datetime.strptime(s, "%Y%m%d") for a str of length 8
strptime_Ymd(c) ==
    IF ~(MatchesYear(c, 1) /\ MatchesMonth(c, 5) /\ MatchesDay(c, 7))
    THEN ExpiryRaise
    ELSE IF YearValue(c) < 1 THEN ExpiryRaise
    ELSE IF TwoDigitValue(c, 7) >
                DaysInMonth(YearValue(c), TwoDigitValue(c, 5))
         THEN ExpiryRaise
    ELSE ExpiryReturn(<<YearValue(c), TwoDigitValue(c, 5),
                        TwoDigitValue(c, 7)>>)

expiry_date(expiry_ident) ==
    IF expiry_ident.kind = "str"
    THEN IF Len(expiry_ident.chars) = 6
         THEN strptime_Ym(expiry_ident.chars)
         ELSE IF Len(expiry_ident.chars) = 8
              THEN strptime_Ymd(expiry_ident.chars)
              ELSE ExpiryRaise
    ELSE IF expiry_ident.kind = "datetime"
         THEN ExpiryReturn(expiry_ident.date)
         ELSE ExpiryRaise

\* datetime.toordinal: the days from 0001-01-01, counted from 1
RECURSIVE DaysBeforeMonth(_, _)
DaysBeforeMonth(y, m) ==
    IF m = 1 THEN 0 ELSE DaysBeforeMonth(y, m - 1) + DaysInMonth(y, m - 1)

DaysBeforeYear(y) ==
    365 * (y - 1) + ((y - 1) \div 4) - ((y - 1) \div 100) + ((y - 1) \div 400)

toordinal(d) == DaysBeforeYear(d[1]) + DaysBeforeMonth(d[1], d[2]) + d[3]

\* (a - b).days
days_between(a, b) == toordinal(a) - toordinal(b)

\* syscore.genutils.sign
sign(x) == IF x < 0 THEN -1 ELSE 1

floor_date_diff == 20

DiffRaise == [raised |-> TRUE, value |-> NaN]

DiffReturn(v) == [raised |-> FALSE, value |-> v]

\* mutant: the floor is applied without the sign
expiry_diff_no_sign(row) ==
    IF row.PRICE_CONTRACT = EmptyStr \/ row.CARRY_CONTRACT = EmptyStr
    THEN DiffReturn(NaN)
    ELSE LET carry == expiry_date(row.CARRY_CONTRACT)
             price == expiry_date(row.PRICE_CONTRACT)
         IN  IF carry.raised \/ price.raised THEN DiffRaise
             ELSE LET ans == days_between(carry.date, price.date)
                      floored == IF Abs(ans) < floor_date_diff
                                 THEN floor_date_diff
                                 ELSE ans
                  IN  DiffReturn(FloatDiv(Float(floored),
                                          CALENDAR_DAYS_IN_YEAR))

\* mutant: no floor
expiry_diff_no_floor(row) ==
    IF row.PRICE_CONTRACT = EmptyStr \/ row.CARRY_CONTRACT = EmptyStr
    THEN DiffReturn(NaN)
    ELSE LET carry == expiry_date(row.CARRY_CONTRACT)
             price == expiry_date(row.PRICE_CONTRACT)
         IN  IF carry.raised \/ price.raised THEN DiffRaise
             ELSE LET ans == days_between(carry.date, price.date)
                      floored == IF FALSE
                                 THEN sign(ans) * floor_date_diff
                                 ELSE ans
                  IN  DiffReturn(FloatDiv(Float(floored),
                                          CALENDAR_DAYS_IN_YEAR))

\* mutant: price minus carry
expiry_diff_swapped(row) ==
    IF row.PRICE_CONTRACT = EmptyStr \/ row.CARRY_CONTRACT = EmptyStr
    THEN DiffReturn(NaN)
    ELSE LET carry == expiry_date(row.CARRY_CONTRACT)
             price == expiry_date(row.PRICE_CONTRACT)
         IN  IF carry.raised \/ price.raised THEN DiffRaise
             ELSE LET ans == days_between(price.date, carry.date)
                      floored == IF Abs(ans) < floor_date_diff
                                 THEN sign(ans) * floor_date_diff
                                 ELSE ans
                  IN  DiffReturn(FloatDiv(Float(floored),
                                          CALENDAR_DAYS_IN_YEAR))

\* mutant: the two identifiers are parsed before the test for ""
expiry_diff_parse_first(row) ==
    LET carry == expiry_date(row.CARRY_CONTRACT)
        price == expiry_date(row.PRICE_CONTRACT)
    IN  IF carry.raised \/ price.raised THEN DiffRaise
        ELSE IF row.PRICE_CONTRACT = EmptyStr \/ row.CARRY_CONTRACT = EmptyStr
             THEN DiffReturn(NaN)
        ELSE LET ans == days_between(carry.date, price.date)
                 floored == IF Abs(ans) < floor_date_diff
                            THEN sign(ans) * floor_date_diff
                            ELSE ans
             IN  DiffReturn(FloatDiv(Float(floored), CALENDAR_DAYS_IN_YEAR))

expiry_diff(row) ==
    IF row.PRICE_CONTRACT = EmptyStr \/ row.CARRY_CONTRACT = EmptyStr
    THEN DiffReturn(NaN)
    ELSE LET carry == expiry_date(row.CARRY_CONTRACT)
             price == expiry_date(row.PRICE_CONTRACT)
         IN  IF carry.raised \/ price.raised THEN DiffRaise
             ELSE LET ans == days_between(carry.date, price.date)
                      floored == IF Abs(ans) < floor_date_diff
                                 THEN sign(ans) * floor_date_diff
                                 ELSE ans
                  IN  DiffReturn(FloatDiv(Float(floored),
                                          CALENDAR_DAYS_IN_YEAR))

----------------------------------------------------------------------------
(* Inputs of expiry_date and expiry_diff *)

YearParts ==
    {<<"2", "0", "1", "8">>, <<"2", "0", "1", "9">>, <<"2", "0", "2", "0">>,
     <<"0", "0", "0", "0">>, <<"2", "0", "x", "8">>, <<"2", "0", "1">>}

MonthParts ==
    {<<"0", "1">>, <<"0", "2">>, <<"0", "3">>, <<"1", "1">>, <<"1", "2">>,
     <<"1", "3">>, <<"0", "0">>, <<" ", "3">>, <<"1">>}

DayParts ==
    {<<>>, <<"0", "1">>, <<"0", "5">>, <<"1", "5">>, <<"2", "0">>,
     <<"2", "1">>, <<"2", "9">>, <<"3", "0">>, <<"3", "1">>, <<" ", "5">>,
     <<"0", "0">>, <<"5", "x">>, <<"1">>}

Idents ==
    {Str(y \o m \o d) : y \in YearParts, m \in MonthParts, d \in DayParts}
        \cup {EmptyStr, Datetime(<<2018, 12, 1>>), OtherIdent}

CarryIdents ==
    {EmptyStr,
     Str(<<"2", "0", "1", "8", "1", "2">>),
     Str(<<"2", "0", "1", "9", "0", "3">>),
     Str(<<"2", "0", "1", "8", "1", "2", "0", "1">>),
     Str(<<"2", "0", "1", "8", "1", "2", "1", "5">>),
     Str(<<"2", "0", "1", "8", "1", "2", "2", "1">>),
     Str(<<"2", "0", "2", "0", "0", "2", "2", "0">>),
     Str(<<"2", "0", "1", "8", "1", "2", "1">>)}

----------------------------------------------------------------------------
(* systems/futures/rawdata.py: what the carry calculations compute.  A     *)
(* series is the set of its entries [t, v]; the rows of a carry table are  *)
(* indexed 1, 2, ... in time order.                                        *)

IsZero(x) == x[1] = 0 /\ x[2] # 0

Index(series) == {e.t : e \in series}

At(series, t) == (CHOOSE e \in series : e.t = t).v

\* syscore.pdutils.uniquets: an entry that repeats the value of the entry
\* before it is dropped
uniquets(series) ==
    {e \in series :
        \A p \in series :
            (p.t < e.t /\ \A q \in series : ~(p.t < q.t /\ q.t < e.t))
                => p.v # e.v}

\* mutant: a zero difference stays in the series
raw_roll_of_keep_zero(table) ==
    LET raw_roll == {[t |-> i, v |-> FloatSub(table[i].PRICE, table[i].CARRY)] :
                        i \in 1..Len(table)}
    IN  uniquets(raw_roll)

\* the body of _calc_raw_futures_roll
raw_roll_of(table) ==
    LET raw_roll == {[t |-> i, v |-> FloatSub(table[i].PRICE, table[i].CARRY)] :
                        i \in 1..Len(table)}
        no_zero  == {[t |-> e.t, v |-> IF IsZero(e.v) THEN NaN ELSE e.v] :
                        e \in raw_roll}
    IN  uniquets(no_zero)

SeriesRaise == [raised |-> TRUE, series |-> {}]

SeriesReturn(series) == [raised |-> FALSE, series |-> series]

\* the body of _calc_roll_differentials
roll_diff_of(table) ==
    IF \E i \in 1..Len(table) : expiry_diff(table[i]).raised THEN SeriesRaise
    ELSE SeriesReturn(uniquets({[t |-> i, v |-> expiry_diff(table[i]).value] :
                                   i \in 1..Len(table)}))

\* rawrollvalues / rolldiffs: pandas aligns the two series on the union of
\* their indexes, and an index one of them lacks gives NaN
series_div(a, b) ==
    {[t |-> t,
      v |-> IF t \in Index(a) /\ t \in Index(b)
            THEN FloatDiv(At(a, t), At(b, t)) ELSE NaN] :
        t \in Index(a) \cup Index(b)}

\* the body of _calc_annualised_roll
annroll_of(table) ==
    LET rolldiffs == roll_diff_of(table)
    IN  IF rolldiffs.raised THEN SeriesRaise
        ELSE SeriesReturn(series_div(raw_roll_of(table), rolldiffs.series))

----------------------------------------------------------------------------
(* Inputs of the carry calculations *)

PricePairs ==
    {<<Float(2), Float(1)>>, <<Float(1), Float(1)>>, <<Float(1), Float(2)>>,
     <<Float(1), NaN>>}

Ident201812 == Str(<<"2", "0", "1", "8", "1", "2">>)

Ident201903 == Str(<<"2", "0", "1", "9", "0", "3">>)

Ident20181201 == Str(<<"2", "0", "1", "8", "1", "2", "0", "1">>)

Ident20181215 == Str(<<"2", "0", "1", "8", "1", "2", "1", "5">>)

Ident20181221 == Str(<<"2", "0", "1", "8", "1", "2", "2", "1">>)

\* <<PRICE_CONTRACT, CARRY_CONTRACT>>
ContractPairs ==
    {<<Ident201903, Ident201812>>,
     <<Ident20181201, Ident20181215>>,
     <<Ident20181215, Ident20181201>>,
     <<Ident201812, Ident201812>>,
     <<Ident201812, EmptyStr>>,
     <<Ident20181201, Ident20181221>>,
     <<Ident201812, Str(<<"2", "0", "1", "8", "1", "2", "1">>)>>,
     <<EmptyStr, Str(<<"2", "0", "1", "8", "1", "2", "1">>)>>}

CarryRows ==
    {[PRICE |-> p[1], CARRY |-> p[2],
      PRICE_CONTRACT |-> c[1], CARRY_CONTRACT |-> c[2]] :
        p \in PricePairs, c \in ContractPairs}

CarryTables == UNION {[1..n -> CarryRows] : n \in 1..MaxRows}

----------------------------------------------------------------------------
(* systems/futures/rawdata.py: the accessors of FuturesRawData.  A cached  *)
(* value is the sequence of operations that produced it, starting with     *)
(* the instrument the DataSource was read for; <<>> is "no entry".         *)

\* a calculation may raise while fewer than MaxRaises raises were counted
MaxRaises == 1

\* the instruments of the doctests
Instruments == {"EDOLLAR", "US10"}

CalcNames == {"instrument_raw_carry_data", "raw_futures_roll",
              "roll_differentials", "annualised_roll",
              "daily_annualised_roll", "daily_denominator_price"}

CalcFunctions == {"_calc_raw_carry", "_calc_raw_futures_roll",
                  "_calc_roll_differentials", "_calc_annualised_roll",
                  "_calc_daily_ann_roll", "_daily_denominator_prices"}

Accessors == {"get_instrument_raw_carry_data", "raw_futures_roll",
              "roll_differentials", "annualised_roll",
              "daily_annualised_roll", "daily_denominator_price"}

\* what may raise during one accessor call: the DataSource read (the file
\* is missing), or expiry_diff in the body of _calc_roll_differentials (a
\* malformed contract token), after the accessor it calls returned
Raisers == {"none", "DataSource", "_calc_roll_differentials"}

\* the accessors that hand a DataSource method's result on
PassThroughs ==
    {"get_raw_data", "get_raw_close", "get_raw_daily_prices",
     "get_daily_data", "get_30min_data", "get_45min_data", "get_60min_data",
     "get_90min_data", "get_120min_data", "get_weekly_data",
     "get_monthly_data"}

\* mutant: get_raw_close stores under the name get_raw_data stores under
PassThroughItemName_collision ==
    [a \in PassThroughs |->
        CASE a = "get_raw_data"         -> "raw_data_prices"
          [] a = "get_raw_close"        -> "raw_data_prices"
          [] a = "get_raw_daily_prices" -> "raw_daily_close_prices"
          [] a = "get_daily_data"       -> "daily_data_prices"
          [] a = "get_30min_data"       -> "30min_data_prices"
          [] a = "get_45min_data"       -> "45min_data_prices"
          [] a = "get_60min_data"       -> "60min_data_prices"
          [] a = "get_90min_data"       -> "90min_data_prices"
          [] a = "get_120min_data"      -> "120min_data_prices"
          [] a = "get_weekly_data"      -> "weekly_data_prices"
          [] a = "get_monthly_data"     -> "monthly_data_prices"]

\* the computation-name each of them hands to calc_or_cache
PassThroughItemName ==
    [a \in PassThroughs |->
        CASE a = "get_raw_data"         -> "raw_data_prices"
          [] a = "get_raw_close"        -> "raw_close_prices"
          [] a = "get_raw_daily_prices" -> "raw_daily_close_prices"
          [] a = "get_daily_data"       -> "daily_data_prices"
          [] a = "get_30min_data"       -> "30min_data_prices"
          [] a = "get_45min_data"       -> "45min_data_prices"
          [] a = "get_60min_data"       -> "60min_data_prices"
          [] a = "get_90min_data"       -> "90min_data_prices"
          [] a = "get_120min_data"      -> "120min_data_prices"
          [] a = "get_weekly_data"      -> "weekly_data_prices"
          [] a = "get_monthly_data"     -> "monthly_data_prices"]

\* the calculation function each of them hands to calc_or_cache
PassThroughFunc ==
    [a \in PassThroughs |->
        CASE a = "get_raw_data"         -> "_get_raw_data"
          [] a = "get_raw_close"        -> "_get_raw_close"
          [] a = "get_raw_daily_prices" -> "_get_raw_daily_prices"
          [] a = "get_daily_data"       -> "_get_daily_data"
          [] a = "get_30min_data"       -> "_get_30min_data"
          [] a = "get_45min_data"       -> "_get_45min_data"
          [] a = "get_60min_data"       -> "_get_60min_data"
          [] a = "get_90min_data"       -> "_get_90min_data"
          [] a = "get_120min_data"      -> "_get_120min_data"
          [] a = "get_weekly_data"      -> "_get_weekly_data"
          [] a = "get_monthly_data"     -> "_get_monthly_data"]

\* the system.data method that calculation function calls
PassThroughData ==
    [a \in PassThroughs |->
        CASE a = "get_raw_data"         -> "data.get_raw_data"
          [] a = "get_raw_close"        -> "data.get_raw_close"
          [] a = "get_raw_daily_prices" -> "data.get_raw_price"
          [] a = "get_daily_data"       -> "data.get_raw_daily_data"
          [] a = "get_30min_data"       -> "data.get_30min_data"
          [] a = "get_45min_data"       -> "data.get_45min_data"
          [] a = "get_60min_data"       -> "data.get_60min_data"
          [] a = "get_90min_data"       -> "data.get_90min_data"
          [] a = "get_120min_data"      -> "data.get_120min_data"
          [] a = "get_weekly_data"      -> "data.get_weekly_data"
          [] a = "get_monthly_data"     -> "data.get_monthly_data"]

StageAccessors == Accessors \cup PassThroughs

StageItemNames == CalcNames \cup {PassThroughItemName[a] : a \in PassThroughs}

StageCalcFunctions ==
    CalcFunctions \cup {PassThroughFunc[a] : a \in PassThroughs}

\* the list FuturesRawData.__init__ hands to update_recalc
ProtectedNames ==
    {"get_raw_data", "get_raw_close", "get_daily_data", "get_30min_data",
     "get_45min_data", "get_60min_data", "get_90min_data", "get_120min_data",
     "get_weekly_data", "get_monthly_data", "get_raw_daily_prices"}

NoEntry == <<>>

\* the calculation function raises: no result
Raised(s) == [s EXCEPT !.ok = FALSE, !.ret = NoEntry]

\* the end of a calculation function's body
Finish(fn, value, s, raiser) ==
    IF raiser = fn THEN Raised(s) ELSE [s EXCEPT !.ret = value]

\* system.data.get_instrument_raw_carry_data(instrument_code)
DataSource_get_instrument_raw_carry_data(k, s, raiser) ==
    LET read == [s EXCEPT !.ds_reads[k] = @ + 1]
    IN  IF raiser = "DataSource" THEN Raised(read)
        ELSE [read EXCEPT !.ret = <<k, "carrydata">>]

RECURSIVE calc_or_cache(_, _, _, _, _)
RECURSIVE get_instrument_raw_carry_data(_, _, _)
RECURSIVE raw_futures_roll(_, _, _)
RECURSIVE roll_differentials(_, _, _)
RECURSIVE annualised_roll(_, _, _)
RECURSIVE daily_annualised_roll(_, _, _)
RECURSIVE daily_denominator_price(_, _, _)

_calc_raw_carry(k, s, raiser) ==
    LET instrcarrydata == DataSource_get_instrument_raw_carry_data(k, s, raiser)
    IN  IF ~instrcarrydata.ok THEN instrcarrydata
        ELSE Finish("_calc_raw_carry", instrcarrydata.ret,
                    instrcarrydata, raiser)

\* mutant: the zeros are set to NaN in the cached carry table itself
_calc_raw_futures_roll_in_place(k, s, raiser) ==
    LET carrydata == get_instrument_raw_carry_data(k, s, raiser)
        changed == [carrydata EXCEPT
                       !.cache["instrument_raw_carry_data"][k] =
                           @ \o <<"zero_to_nan">>]
    IN  IF ~carrydata.ok THEN carrydata
        ELSE Finish("_calc_raw_futures_roll",
                    carrydata.ret \o <<"PRICE-CARRY", "zero_to_nan", "uniquets">>,
                    changed, raiser)

_calc_raw_futures_roll(k, s, raiser) ==
    LET carrydata == get_instrument_raw_carry_data(k, s, raiser)
    IN  IF ~carrydata.ok THEN carrydata
        ELSE Finish("_calc_raw_futures_roll",
                    carrydata.ret \o <<"PRICE-CARRY", "zero_to_nan", "uniquets">>,
                    carrydata, raiser)

\* mutant: the carry table is read for one fixed instrument
_calc_roll_differentials_fixed_key(k, s, raiser) ==
    LET carrydata == get_instrument_raw_carry_data("EDOLLAR", s, raiser)
    IN  IF ~carrydata.ok THEN carrydata
        ELSE Finish("_calc_roll_differentials",
                    carrydata.ret \o <<"expiry_diff", "uniquets">>,
                    carrydata, raiser)

_calc_roll_differentials(k, s, raiser) ==
    LET carrydata == get_instrument_raw_carry_data(k, s, raiser)
    IN  IF ~carrydata.ok THEN carrydata
        ELSE Finish("_calc_roll_differentials",
                    carrydata.ret \o <<"expiry_diff", "uniquets">>,
                    carrydata, raiser)

\* mutant: a failure of roll_differentials is caught and a result returned
_calc_annualised_roll_swallow(k, s, raiser) ==
    LET rolldiffs == roll_differentials(k, s, raiser)
    IN  IF ~rolldiffs.ok
        THEN [rolldiffs EXCEPT !.ok = TRUE, !.ret = <<k, "nan">>]
        ELSE LET rawrollvalues == raw_futures_roll(k, rolldiffs, raiser)
             IN  IF ~rawrollvalues.ok THEN rawrollvalues
                 ELSE Finish("_calc_annualised_roll",
                             rawrollvalues.ret \o rolldiffs.ret \o <<"/">>,
                             rawrollvalues, raiser)

_calc_annualised_roll(k, s, raiser) ==
    LET rolldiffs == roll_differentials(k, s, raiser)
    IN  IF ~rolldiffs.ok THEN rolldiffs
        ELSE LET rawrollvalues == raw_futures_roll(k, rolldiffs, raiser)
             IN  IF ~rawrollvalues.ok THEN rawrollvalues
                 ELSE Finish("_calc_annualised_roll",
                             rawrollvalues.ret \o rolldiffs.ret \o <<"/">>,
                             rawrollvalues, raiser)

\* mutant: the daily roll divides the two series itself and does not
\* call annualised_roll
_calc_daily_ann_roll_inline(k, s, raiser) ==
    LET rolldiffs == roll_differentials(k, s, raiser)
    IN  IF ~rolldiffs.ok THEN rolldiffs
        ELSE LET rawrollvalues == raw_futures_roll(k, rolldiffs, raiser)
             IN  IF ~rawrollvalues.ok THEN rawrollvalues
                 ELSE Finish("_calc_daily_ann_roll",
                             rawrollvalues.ret \o rolldiffs.ret
                                 \o <<"/", "resample_1B_mean">>,
                             rawrollvalues, raiser)

_calc_daily_ann_roll(k, s, raiser) ==
    LET annroll == annualised_roll(k, s, raiser)
    IN  IF ~annroll.ok THEN annroll
        ELSE Finish("_calc_daily_ann_roll",
                    annroll.ret \o <<"resample_1B_mean">>, annroll, raiser)

_daily_denominator_prices(k, s, raiser) ==
    LET carrydata == get_instrument_raw_carry_data(k, s, raiser)
    IN  IF ~carrydata.ok THEN carrydata
        ELSE Finish("_daily_denominator_prices",
                    carrydata.ret \o <<"PRICE", "resample_1B_last">>,
                    carrydata, raiser)

\* the body of _get_raw_data, _get_raw_close, ..., _get_monthly_data
_pass_through(fn, k, s, raiser) ==
    LET a == CHOOSE b \in PassThroughs : PassThroughFunc[b] = fn
    IN  Finish(fn, <<k, PassThroughData[a]>>, s, raiser)

RunCalc(fn, k, s, raiser) ==
    CASE fn = "_calc_raw_carry"           -> _calc_raw_carry(k, s, raiser)
      [] fn = "_calc_raw_futures_roll"    -> _calc_raw_futures_roll(k, s, raiser)
      [] fn = "_calc_roll_differentials"  -> _calc_roll_differentials(k, s, raiser)
      [] fn = "_calc_annualised_roll"     -> _calc_annualised_roll(k, s, raiser)
      [] fn = "_calc_daily_ann_roll"      -> _calc_daily_ann_roll(k, s, raiser)
      [] fn = "_daily_denominator_prices" -> _daily_denominator_prices(k, s, raiser)
      [] OTHER                            -> _pass_through(fn, k, s, raiser)

\* System.calc_or_cache(itemname, instrument_code, func, this_stage)
calc_or_cache(itemname, k, func, s, raiser) ==
    IF s.cache[itemname][k] # NoEntry
    THEN [s EXCEPT !.ret = s.cache[itemname][k]]
    ELSE LET entered == [s EXCEPT !.calls[func][k] = @ + 1]
             r == RunCalc(func, k, entered, raiser)
         IN  IF r.ok THEN [r EXCEPT !.cache[itemname][k] = r.ret,
                                    !.stored = Append(@, itemname)]
             ELSE [r EXCEPT !.raised[func][k] = @ + 1]

get_instrument_raw_carry_data(k, s, raiser) ==
    calc_or_cache("instrument_raw_carry_data", k, "_calc_raw_carry", s, raiser)

raw_futures_roll(k, s, raiser) ==
    calc_or_cache("raw_futures_roll", k, "_calc_raw_futures_roll", s, raiser)

roll_differentials(k, s, raiser) ==
    calc_or_cache("roll_differentials", k, "_calc_roll_differentials", s, raiser)

\* mutant: the calculation runs on every call, the entry is not looked up
annualised_roll_uncached(k, s, raiser) ==
    LET entered == [s EXCEPT !.calls["_calc_annualised_roll"][k] = @ + 1]
        r == RunCalc("_calc_annualised_roll", k, entered, raiser)
    IN  IF r.ok THEN [r EXCEPT !.cache["annualised_roll"][k] = r.ret]
        ELSE [r EXCEPT !.raised["_calc_annualised_roll"][k] = @ + 1]

annualised_roll(k, s, raiser) ==
    calc_or_cache("annualised_roll", k, "_calc_annualised_roll", s, raiser)

daily_annualised_roll(k, s, raiser) ==
    calc_or_cache("daily_annualised_roll", k, "_calc_daily_ann_roll", s, raiser)

daily_denominator_price(k, s, raiser) ==
    calc_or_cache("daily_denominator_price", k, "_daily_denominator_prices",
                  s, raiser)

RunAccessor(acc, k, s, raiser) ==
    CASE acc = "get_instrument_raw_carry_data" -> get_instrument_raw_carry_data(k, s, raiser)
      [] acc = "raw_futures_roll"        -> raw_futures_roll(k, s, raiser)
      [] acc = "roll_differentials"      -> roll_differentials(k, s, raiser)
      [] acc = "annualised_roll"         -> annualised_roll(k, s, raiser)
      [] acc = "daily_annualised_roll"   -> daily_annualised_roll(k, s, raiser)
      [] acc = "daily_denominator_price" -> daily_denominator_price(k, s, raiser)
      [] OTHER -> calc_or_cache(PassThroughItemName[acc], k,
                                PassThroughFunc[acc], s, raiser)

----------------------------------------------------------------------------
(* sysdata/tscsvdata.py and sysportfolio/tsportfolio.py: the methods that  *)
(* read the csv files.  A call's outcome is the kind of value returned,    *)
(* the exception raised and the warnings logged.                           *)

IoReturn(ret, warnings) ==
    [ret |-> ret, error |-> "none", warnings |-> warnings, costs |-> {}]

IoRaise(error, warnings) ==
    [ret |-> "nothing", error |-> error, warnings |-> warnings, costs |-> {}]

get_all_trading_hours(hf) ==
    IF hf.exists THEN IoReturn("frame", <<>>)
    ELSE IoReturn("None", <<"Instrument trading hours file not found">>)

get_raw_data(files, code) ==
    IF code \in files THEN IoReturn("frame", <<>>)
    ELSE IoRaise("OSError", <<>>)

get_raw_daily_data(files, hf, code) ==
    LET instrdailydata == get_raw_data(files, code)
        hours == get_all_trading_hours(hf)
    IN  IF instrdailydata.error # "none" THEN instrdailydata
        ELSE IF hours.ret = "None"        \* None.loc
             THEN IoRaise("AttributeError", hours.warnings)
        ELSE IF code \notin hf.rows       \* .loc[instrument_code]
             THEN IoRaise("KeyError", hours.warnings)
        ELSE IoReturn("frame", hours.warnings)

get_raw_price(files, hf, code) ==
    LET instrpricedataframe == get_raw_daily_data(files, hf, code)
    IN  IF instrpricedataframe.error # "none" THEN instrpricedataframe
        ELSE IoReturn("series", instrpricedataframe.warnings)

get_raw_close(files, code) ==
    LET instrpricedataframe == get_raw_data(files, code)
    IN  IF instrpricedataframe.error # "none" THEN instrpricedataframe
        ELSE IoReturn("series", instrpricedataframe.warnings)

_get_all_cost_data(cf) ==
    IF cf.exists THEN IoReturn("frame", <<>>)
    ELSE IoReturn("None", <<"Cost file not found">>)

default_costs ==
    {<<"price_slippage", 0>>, <<"value_of_block_commission", 0>>,
     <<"percentage_cost", 0>>, <<"value_of_pertrade_commission", 0>>}

CostReturn(costs, warnings) ==
    [ret |-> "dict", error |-> "none", warnings |-> warnings, costs |-> costs]

\* mutant: PerBlock and Percentage change places
get_raw_cost_data_swapped(cf, code) ==
    LET cost_data == _get_all_cost_data(cf)
        found == {r \in cf.rows : r.Instrument = code}
    IN  IF cost_data.ret = "None"
        THEN CostReturn(default_costs, cost_data.warnings)
        ELSE IF found = {}
             THEN CostReturn(default_costs, <<"Cost data not found, using zero">>)
        ELSE LET block_move_value == CHOOSE r \in found : TRUE
             IN  CostReturn(
                   {<<"price_slippage", block_move_value.Slippage>>,
                    <<"value_of_block_commission", block_move_value.Percentage>>,
                    <<"percentage_cost", block_move_value.PerBlock>>,
                    <<"value_of_pertrade_commission", block_move_value.PerTrade>>},
                   <<>>)

get_raw_cost_data(cf, code) ==
    LET cost_data == _get_all_cost_data(cf)
        found == {r \in cf.rows : r.Instrument = code}
    IN  IF cost_data.ret = "None"
        THEN CostReturn(default_costs, cost_data.warnings)
        ELSE IF found = {}                \* KeyError
             THEN CostReturn(default_costs, <<"Cost data not found, using zero">>)
        ELSE LET block_move_value == CHOOSE r \in found : TRUE
             IN  CostReturn(
                   {<<"price_slippage", block_move_value.Slippage>>,
                    <<"value_of_block_commission", block_move_value.PerBlock>>,
                    <<"percentage_cost", block_move_value.Percentage>>,
                    <<"value_of_pertrade_commission", block_move_value.PerTrade>>},
                   <<>>)

----------------------------------------------------------------------------
(* Inputs of the data methods: the files on disk *)

NoFile == [exists |-> FALSE, rows |-> {}]

HoursFiles == {NoFile} \cup {[exists |-> TRUE, rows |-> r] : r \in SUBSET Instruments}

CostValues == {1, 2}

\* <<Slippage, PerBlock, Percentage, PerTrade>> of a row; <<>> is no row
CostQuads == (CostValues \X CostValues \X CostValues \X CostValues) \cup {<<>>}

\* a cost file has at most one row for an instrument
CostFiles ==
    {NoFile} \cup
    {[exists |-> TRUE,
      rows |-> {[Instrument |-> k, Slippage |-> f[k][1], PerBlock |-> f[k][2],
                 Percentage |-> f[k][3], PerTrade |-> f[k][4]] :
                   k \in {j \in Instruments : f[j] # <<>>}}] :
        f \in [Instruments -> CostQuads]}

----------------------------------------------------------------------------
(* The state machines *)

NoCall == [accessor |-> "none", key |-> "none",
           outcome |-> "none", value |-> NoEntry, stored |-> <<>>]

\* FuturesRawData.__init__
InitStageObject ==
    /\ protected = ProtectedNames
    /\ stage_calls = 0

InitPipeline ==
    /\ cache = [n \in CalcNames |-> [k \in Instruments |-> NoEntry]]
    /\ calls = [f \in CalcFunctions |-> [k \in Instruments |-> 0]]
    /\ raised = [f \in CalcFunctions |-> [k \in Instruments |-> 0]]
    /\ ds_reads = [k \in Instruments |-> 0]
    /\ last_call = NoCall
    /\ InitStageObject

InitNoFit ==
    /\ data = [is_list |-> FALSE, series |-> <<>>]
    /\ date_method = "in_sample"
    /\ rollyears = 0
    /\ fit_pc = "idle"
    /\ periods = <<>>
    /\ fit_error = "none"

NoRow == [PRICE_CONTRACT |-> EmptyStr, CARRY_CONTRACT |-> EmptyStr]

InitNoExpiry ==
    /\ carry_row = NoRow
    /\ expiry_pc = "idle"
    /\ expiry_op = "none"
    /\ expiry_date_out = <<0, 0, 0>>
    /\ expiry_diff_out = NaN

InitNoRoll ==
    /\ carry_table = <<>>
    /\ roll_pc = "idle"
    /\ roll_op = "none"
    /\ roll_out = {}

InitNoIo ==
    /\ hours_file = NoFile
    /\ data_files = {}
    /\ cost_file = NoFile
    /\ instrument_code = "EDOLLAR"
    /\ io_pc = "idle"
    /\ io_op = "none"
    /\ io_ret = "nothing"
    /\ io_error = "none"
    /\ io_warnings = <<>>
    /\ cost_out = {}

\* generate_fitting_dates is about to be called on some input
InitFit ==
    /\ data \in DataInputs
    /\ date_method \in MethodInputs
    /\ rollyears \in 0..MaxRollYears
    /\ fit_pc = "call"
    /\ periods = <<>>
    /\ fit_error = "none"
    /\ InitPipeline
    /\ InitNoExpiry
    /\ InitNoRoll
    /\ InitNoIo

\* the call of generate_fitting_dates(data, date_method, rollyears)
GenerateFittingDates ==
    /\ fit_pc = "call"
    /\ LET r == generate_fitting_dates(data, date_method, rollyears)
       IN  /\ fit_pc' = IF r.raised THEN "raised" ELSE "returned"
           /\ periods' = r.periods
           /\ fit_error' = r.error
    /\ UNCHANGED <<data, date_method, rollyears>>
    /\ UNCHANGED <<cache_vars, expiry_vars, roll_vars, io_vars, stage_vars>>

NextFit == GenerateFittingDates

SpecFit == InitFit /\ [][NextFit]_vars

Init == InitPipeline /\ InitNoFit /\ InitNoExpiry /\ InitNoRoll /\ InitNoIo

RECURSIVE SumOver(_, _)
SumOver(count, S) ==
    IF S = {} THEN 0
    ELSE LET p == CHOOSE q \in S : TRUE
         IN  count[p[1]][p[2]] + SumOver(count, S \ {p})

\* the raises counted so far, over all calculation functions and instruments
TotalRaised == SumOver(raised, CalcFunctions \X Instruments)

\* one call of an accessor of the stage, from outside the stage
CallAccessor(acc, k, raiser) ==
    /\ raiser # "none" => TotalRaised < MaxRaises
    /\ LET s0 == [cache |-> cache, calls |-> calls, raised |-> raised,
                  ds_reads |-> ds_reads, ok |-> TRUE, ret |-> NoEntry,
                  stored |-> <<>>]
           r  == RunAccessor(acc, k, s0, raiser)
       IN  /\ cache' = r.cache
           /\ calls' = r.calls
           /\ raised' = r.raised
           /\ ds_reads' = r.ds_reads
           /\ last_call' = [accessor |-> acc, key |-> k,
                            outcome |-> IF r.ok THEN "returned" ELSE "raised",
                            value |-> r.ret,
                            stored |-> r.stored]
    /\ UNCHANGED <<fit_vars, expiry_vars, roll_vars, io_vars, stage_vars>>

Next == \E acc \in Accessors, k \in Instruments, raiser \in Raisers :
            CallAccessor(acc, k, raiser)

Spec == Init /\ [][Next]_vars

\* the whole stage, all its accessors, on a pipeline whose cache is empty
InitStage ==
    /\ cache = [n \in StageItemNames |-> [k \in Instruments |-> NoEntry]]
    /\ calls = [f \in StageCalcFunctions |-> [k \in Instruments |-> 0]]
    /\ raised = [f \in StageCalcFunctions |-> [k \in Instruments |-> 0]]
    /\ ds_reads = [k \in Instruments |-> 0]
    /\ last_call = NoCall
    /\ InitStageObject
    /\ InitNoFit
    /\ InitNoExpiry
    /\ InitNoRoll
    /\ InitNoIo

\* one call of any accessor of the stage, nothing raising
CallStageAccessor(acc, k) ==
    /\ stage_calls < MaxStageCalls
    /\ stage_calls' = stage_calls + 1
    /\ LET s0 == [cache |-> cache, calls |-> calls, raised |-> raised,
                  ds_reads |-> ds_reads, ok |-> TRUE, ret |-> NoEntry,
                  stored |-> <<>>]
           r  == RunAccessor(acc, k, s0, "none")
       IN  /\ cache' = r.cache
           /\ calls' = r.calls
           /\ raised' = r.raised
           /\ ds_reads' = r.ds_reads
           /\ last_call' = [accessor |-> acc, key |-> k,
                            outcome |-> IF r.ok THEN "returned" ELSE "raised",
                            value |-> r.ret,
                            stored |-> r.stored]
    /\ UNCHANGED protected
    /\ UNCHANGED <<fit_vars, expiry_vars, roll_vars, io_vars>>

NextStage == \E acc \in StageAccessors, k \in Instruments :
                 CallStageAccessor(acc, k)

SpecStage == InitStage /\ [][NextStage]_vars

\* expiry_date or expiry_diff is about to be called on some row
InitExpiry ==
    /\ carry_row \in [PRICE_CONTRACT : Idents, CARRY_CONTRACT : CarryIdents]
    /\ expiry_pc = "call"
    /\ expiry_op = "none"
    /\ expiry_date_out = <<0, 0, 0>>
    /\ expiry_diff_out = NaN
    /\ InitPipeline
    /\ InitNoFit
    /\ InitNoRoll
    /\ InitNoIo

\* the call expiry_date(carry_row.PRICE_CONTRACT)
ExpiryDate ==
    /\ expiry_pc = "call"
    /\ LET r == expiry_date(carry_row.PRICE_CONTRACT)
       IN  /\ expiry_pc' = IF r.raised THEN "raised" ELSE "returned"
           /\ expiry_date_out' = r.date
    /\ expiry_op' = "expiry_date"
    /\ UNCHANGED <<carry_row, expiry_diff_out>>
    /\ UNCHANGED <<fit_vars, cache_vars, roll_vars, io_vars, stage_vars>>

\* the call expiry_diff(carry_row)
ExpiryDiff ==
    /\ expiry_pc = "call"
    /\ LET r == expiry_diff(carry_row)
       IN  /\ expiry_pc' = IF r.raised THEN "raised" ELSE "returned"
           /\ expiry_diff_out' = r.value
    /\ expiry_op' = "expiry_diff"
    /\ UNCHANGED <<carry_row, expiry_date_out>>
    /\ UNCHANGED <<fit_vars, cache_vars, roll_vars, io_vars, stage_vars>>

NextExpiry == ExpiryDate \/ ExpiryDiff

SpecExpiry == InitExpiry /\ [][NextExpiry]_vars

\* a carry calculation is about to run on some carry table
InitRoll ==
    /\ carry_table \in CarryTables
    /\ roll_pc = "call"
    /\ roll_op = "none"
    /\ roll_out = {}
    /\ InitPipeline
    /\ InitNoFit
    /\ InitNoExpiry
    /\ InitNoIo

\* _calc_raw_futures_roll on carry_table
CalcRawFuturesRoll ==
    /\ roll_pc = "call"
    /\ roll_pc' = "returned"
    /\ roll_op' = "raw_futures_roll"
    /\ roll_out' = raw_roll_of(carry_table)
    /\ UNCHANGED carry_table
    /\ UNCHANGED <<fit_vars, cache_vars, expiry_vars, io_vars, stage_vars>>

\* _calc_roll_differentials on carry_table
CalcRollDifferentials ==
    /\ roll_pc = "call"
    /\ LET r == roll_diff_of(carry_table)
       IN  /\ roll_pc' = IF r.raised THEN "raised" ELSE "returned"
           /\ roll_out' = r.series
    /\ roll_op' = "roll_differentials"
    /\ UNCHANGED carry_table
    /\ UNCHANGED <<fit_vars, cache_vars, expiry_vars, io_vars, stage_vars>>

\* _calc_annualised_roll on carry_table
CalcAnnualisedRoll ==
    /\ roll_pc = "call"
    /\ LET r == annroll_of(carry_table)
       IN  /\ roll_pc' = IF r.raised THEN "raised" ELSE "returned"
           /\ roll_out' = r.series
    /\ roll_op' = "annualised_roll"
    /\ UNCHANGED carry_table
    /\ UNCHANGED <<fit_vars, cache_vars, expiry_vars, io_vars, stage_vars>>

NextRoll == CalcRawFuturesRoll \/ CalcRollDifferentials \/ CalcAnnualisedRoll

SpecRoll == InitRoll /\ [][NextRoll]_vars

\* a data method is about to be called with some files on disk
InitIo ==
    /\ hours_file \in HoursFiles
    /\ data_files \in SUBSET Instruments
    /\ cost_file \in CostFiles
    /\ instrument_code \in Instruments
    /\ io_pc = "call"
    /\ io_op = "none"
    /\ io_ret = "nothing"
    /\ io_error = "none"
    /\ io_warnings = <<>>
    /\ cost_out = {}
    /\ InitPipeline
    /\ InitNoFit
    /\ InitNoExpiry
    /\ InitNoRoll

\* the outcome r of the data method op
IoCall(op, r) ==
    /\ io_pc = "call"
    /\ io_pc' = IF r.error = "none" THEN "returned" ELSE "raised"
    /\ io_op' = op
    /\ io_ret' = r.ret
    /\ io_error' = r.error
    /\ io_warnings' = r.warnings
    /\ cost_out' = r.costs
    /\ UNCHANGED <<hours_file, data_files, cost_file, instrument_code>>
    /\ UNCHANGED <<fit_vars, cache_vars, expiry_vars, roll_vars, stage_vars>>

GetAllTradingHours ==
    IoCall("get_all_trading_hours", get_all_trading_hours(hours_file))

GetRawData ==
    IoCall("get_raw_data", get_raw_data(data_files, instrument_code))

GetRawDailyData ==
    IoCall("get_raw_daily_data",
           get_raw_daily_data(data_files, hours_file, instrument_code))

GetRawPrice ==
    IoCall("get_raw_price",
           get_raw_price(data_files, hours_file, instrument_code))

GetRawClose ==
    IoCall("get_raw_close", get_raw_close(data_files, instrument_code))

GetRawCostData ==
    IoCall("get_raw_cost_data", get_raw_cost_data(cost_file, instrument_code))

NextIo ==
    \/ GetAllTradingHours
    \/ GetRawData
    \/ GetRawDailyData
    \/ GetRawPrice
    \/ GetRawClose
    \/ GetRawCostData

SpecIo == InitIo /\ [][NextIo]_vars

----------------------------------------------------------------------------
(* What the fitting-date properties are stated over *)

\* every timestamp of every series of the input
AllTimestamps(d) ==
    UNION {{SeriesOf(d)[i][j] : j \in 1..Len(SeriesOf(d)[i])} :
             i \in 1..Len(SeriesOf(d))}

Earliest == MinDate(AllTimestamps(data))

Latest == MaxDate(AllTimestamps(data))

Returned == fit_pc = "returned"

Windowed == Returned /\ date_method \in {"expanding", "rolling"}

\* the year boundaries of a call that went past the in_sample return
Boundaries == yearstarts_of(Earliest, Latest)

Max0(n) == IF n > 0 THEN n ELSE 0

----------------------------------------------------------------------------
(* C3: the windows returned by generate_fitting_dates cover                *)
(* [start_date, end_date] without gaps: the first window begins at         *)
(* start_date, the last window's period_end is end_date, each later        *)
(* window's period_start is the preceding window's period_end, and every   *)
(* window's fit_start is not after its period_start.                       *)
C3_Coverage ==
    Returned =>
        /\ Len(periods) >= 1
        /\ periods[1].fit_start = Earliest
        /\ periods[1].period_start = Earliest
        /\ periods[Len(periods)].period_end = Latest
        /\ \A i \in 2..Len(periods) :
               periods[i].period_start = periods[i - 1].period_end
        /\ \A i \in 1..Len(periods) :
               NotAfter(periods[i].fit_start, periods[i].period_start)

C3_Witness ==
    /\ Returned
    /\ date_method = "rolling"
    /\ Len(periods) >= 3
    /\ Earliest # Boundaries[1]

(* C4: no window returned by generate_fitting_dates for a series that      *)
(* spans more than one timestamp has period_start >= period_end, the last  *)
(* (stub) window included.                                                 *)
C4_NoEmptyPeriod ==
    (Returned /\ Before(Earliest, Latest)) =>
        \A i \in 1..Len(periods) :
            Before(periods[i].period_start, periods[i].period_end)

(* C5 as stated: every window returned, under any of the three policies,   *)
(* has fit_start <= fit_end <= period_start.                               *)
C5_Original ==
    Returned =>
        \A i \in 1..Len(periods) :
            /\ NotAfter(periods[i].fit_start, periods[i].fit_end)
            /\ NotAfter(periods[i].fit_end, periods[i].period_start)

(* C5 as amended: under expanding and rolling every window has             *)
(* fit_start <= fit_end <= period_start; under in_sample the one window    *)
(* has fit_start = period_start <= fit_end = period_end.                   *)
C5_FitBeforePeriod ==
    /\ Windowed =>
           \A i \in 1..Len(periods) :
               /\ NotAfter(periods[i].fit_start, periods[i].fit_end)
               /\ NotAfter(periods[i].fit_end, periods[i].period_start)
    /\ (Returned /\ date_method = "in_sample") =>
           \A i \in 1..Len(periods) :
               /\ periods[i].fit_start = periods[i].period_start
               /\ NotAfter(periods[i].period_start, periods[i].fit_end)
               /\ periods[i].fit_end = periods[i].period_end

C5_Witness ==
    /\ Returned
    /\ date_method = "expanding"
    /\ Len(periods) >= 2
    /\ Before(periods[2].fit_start, periods[2].fit_end)

(* C6: generate_fitting_dates(data, "in_sample") returns, for every        *)
(* readable input and every rollyears, exactly one window with             *)
(* fit_start = period_start = start_date, fit_end = period_end = end_date  *)
(* and no_data = false.                                                    *)
C6_InSample ==
    (fit_pc # "call" /\ date_method = "in_sample" /\ DataReadable(data)) =>
        /\ Returned
        /\ periods = <<[fit_start |-> Earliest, fit_end |-> Latest,
                        period_start |-> Earliest, period_end |-> Latest,
                        no_data |-> FALSE]>>

C6_Witness ==
    /\ Returned
    /\ date_method = "in_sample"
    /\ rollyears = 1
    /\ data.is_list
    /\ Len(data.items) = 2
    /\ Before(Earliest, Latest)

(* C7: under expanding and rolling the first window returned is a          *)
(* sentinel with no_data = true, fit_start = fit_end = period_start =      *)
(* start_date and period_end = the second year boundary, and no other      *)
(* window has no_data = true; under in_sample no window has.               *)
C7_Sentinel ==
    /\ Windowed =>
           /\ periods[1] = [fit_start |-> Earliest, fit_end |-> Earliest,
                            period_start |-> Earliest,
                            period_end |-> Boundaries[2],
                            no_data |-> TRUE]
           /\ \A i \in 2..Len(periods) : ~periods[i].no_data
    /\ (Returned /\ date_method = "in_sample") =>
           \A i \in 1..Len(periods) : ~periods[i].no_data

C7_Witness ==
    /\ Windowed
    /\ Len(periods) >= 2
    /\ periods[1].no_data
    /\ Before(periods[1].period_start, periods[1].period_end)

(* C8: under expanding every non-sentinel window has fit_start =           *)
(* start_date and fit_end = period_start, whatever rollyears is.           *)
C8_Expanding ==
    (Returned /\ date_method = "expanding") =>
        \A i \in 2..Len(periods) :
            /\ periods[i].fit_start = Earliest
            /\ periods[i].fit_end = periods[i].period_start

C8_Witness ==
    /\ Returned
    /\ date_method = "expanding"
    /\ rollyears = 0
    /\ Len(periods) >= 3
    /\ Before(Earliest, Boundaries[1])

(* C9: under rolling the non-sentinel window whose period_start is the     *)
(* boundary at index idx has fit_start = the boundary at index             *)
(* max(0, idx - rollyears) and fit_end = period_start; the fit window      *)
(* does not start before the first boundary.  (Window i of the list, from  *)
(* 1, starts its period at the boundary of index i - 1, from 0.)           *)
C9_Rolling ==
    (Returned /\ date_method = "rolling") =>
        \A i \in 2..Len(periods) :
            /\ periods[i].period_start = Boundaries[i]
            /\ periods[i].fit_start = Boundaries[Max0((i - 1) - rollyears) + 1]
            /\ periods[i].fit_end = periods[i].period_start
            /\ NotAfter(Boundaries[1], periods[i].fit_start)

C9_Witness ==
    /\ Returned
    /\ date_method = "rolling"
    /\ rollyears = 1
    /\ Len(periods) >= 3
    /\ periods[3].fit_start = Boundaries[2]
    /\ Before(Boundaries[1], Boundaries[2])

(* C10: for expanding and rolling the first year boundary is start_date,   *)
(* every window's period except the last is exactly 12 months long and     *)
(* the last period is at most 12 months long.                              *)
C10_YearBoundaries ==
    Windowed =>
        /\ Boundaries[1] = Earliest
        /\ \A i \in 1..(Len(periods) - 1) :
               periods[i].period_end = AddTwelveMonths(periods[i].period_start)
        /\ NotAfter(periods[Len(periods)].period_end,
                    AddTwelveMonths(periods[Len(periods)].period_start))

(* C11: for every non-empty input and every valid policy                   *)
(* generate_fitting_dates does not raise and returns a non-empty list of   *)
(* windows ordered by period_start, also for a series shorter than 12      *)
(* months or holding a single timestamp.                                   *)
C11_AlwaysReturns ==
    (fit_pc # "call" /\ date_method \in ValidMethods /\ DataReadable(data)) =>
        /\ Returned
        /\ Len(periods) >= 1
        /\ \A i \in 2..Len(periods) :
               NotAfter(periods[i - 1].period_start, periods[i].period_start)

(* C12: a policy token other than in_sample, expanding or rolling makes    *)
(* generate_fitting_dates raise the date_method error and return no        *)
(* window, whatever the data argument is, readable or not.                 *)
C12_UnknownPolicy ==
    (fit_pc # "call" /\ date_method \notin ValidMethods) =>
        /\ fit_pc = "raised"
        /\ fit_error = "date_method"
        /\ periods = <<>>

C12_Witness ==
    /\ fit_pc = "raised"
    /\ date_method = "monthly"
    /\ ~DataReadable(data)
    /\ data.is_list

(* C13: for a list of series start_date is the earliest first timestamp    *)
(* and end_date the latest last timestamp, and the call gives what it      *)
(* gives for the single series that spans from the one to the other.       *)
C13_ListOfSeries ==
    (/\ fit_pc # "call"
     /\ date_method \in ValidMethods
     /\ DataReadable(data)
     /\ data.is_list) =>
        LET union == [is_list |-> FALSE, series |-> <<Earliest, Latest>>]
            r == generate_fitting_dates(union, date_method, rollyears)
        IN  /\ (fit_pc = "raised") = r.raised
            /\ periods = r.periods
            /\ Returned =>
                   /\ periods[1].period_start = Earliest
                   /\ periods[Len(periods)].period_end = Latest

C13_Witness ==
    /\ Returned
    /\ date_method = "expanding"
    /\ data.is_list
    /\ Len(data.items) = 2
    /\ Len(periods) >= 2
    /\ data.items[1][Len(data.items[1])] # data.items[2][Len(data.items[2])]
    /\ data.items[1][1] # data.items[2][1]

----------------------------------------------------------------------------
(* What the expiry properties are stated over *)

Price == carry_row.PRICE_CONTRACT

Carry == carry_row.CARRY_CONTRACT

\* the str is four digits, a month 01..12 and no more, or a day 01..31 of
\* that month after them
WellFormed(ident) ==
    /\ ident.kind = "str"
    /\ Len(ident.chars) \in {6, 8}
    /\ \A i \in 1..Len(ident.chars) : IsDigit(ident.chars[i])
    /\ YearValue(ident.chars) >= 1
    /\ TwoDigitValue(ident.chars, 5) \in 1..12
    /\ (Len(ident.chars) = 8 =>
          TwoDigitValue(ident.chars, 7) \in
              1..DaysInMonth(YearValue(ident.chars),
                             TwoDigitValue(ident.chars, 5)))

\* the date a well-formed str stands for
DateOf(ident) ==
    <<YearValue(ident.chars), TwoDigitValue(ident.chars, 5),
      IF Len(ident.chars) = 8 THEN TwoDigitValue(ident.chars, 7) ELSE 1>>

\* the Julian day number of a Gregorian date
JulianDay(d) ==
    LET a == (14 - d[2]) \div 12
        y == d[1] + 4800 - a
        m == d[2] + 12 * a - 3
    IN  d[3] + ((153 * m + 2) \div 5) + 365 * y + (y \div 4) - (y \div 100)
            + (y \div 400) - 32045

\* CARRY_CONTRACT's expiry minus PRICE_CONTRACT's, in days, not floored
UnflooredOf(row) ==
    JulianDay(DateOf(row.CARRY_CONTRACT))
        - JulianDay(DateOf(row.PRICE_CONTRACT))

Unfloored == UnflooredOf(carry_row)

(* C14: for a row whose two expiries are fewer than 20 calendar days       *)
(* apart expiry_diff returns a number of magnitude exactly 20/365.25, and  *)
(* its sign is that of the unfloored difference, carry minus price.        *)
C14_Floor ==
    (/\ expiry_pc # "call"
     /\ expiry_op = "expiry_diff"
     /\ WellFormed(Price)
     /\ WellFormed(Carry)
     /\ Abs(Unfloored) < 20) =>
        /\ expiry_pc = "returned"
        /\ expiry_diff_out[2] > 0
        /\ Abs(expiry_diff_out[1]) * 36525 = 2000 * expiry_diff_out[2]
        /\ (Unfloored > 0 => expiry_diff_out[1] > 0)
        /\ (Unfloored < 0 => expiry_diff_out[1] < 0)

C14_Witness ==
    /\ expiry_pc = "returned"
    /\ expiry_op = "expiry_diff"
    /\ WellFormed(Price)
    /\ WellFormed(Carry)
    /\ Unfloored = -14
    /\ expiry_diff_out[1] < 0

(* C18: expiry_date returns a date for a str only when the str is six      *)
(* characters YYYYMM, and then the first of that month, or eight           *)
(* characters YYYYMMDD, and then that day; for a str of any other length   *)
(* or form it raises.                                                      *)
C18_ExpiryDate ==
    (expiry_pc # "call" /\ expiry_op = "expiry_date" /\ Price.kind = "str") =>
        IF WellFormed(Price)
        THEN expiry_pc = "returned" /\ expiry_date_out = DateOf(Price)
        ELSE expiry_pc = "raised"

----------------------------------------------------------------------------
(* What the carry properties are stated over *)

Rows == 1..Len(carry_table)

BothIdents(i) ==
    /\ carry_table[i].PRICE_CONTRACT # EmptyStr
    /\ carry_table[i].CARRY_CONTRACT # EmptyStr

\* the series has an observation at or before row t
Observed(series, t) == \E e \in series : e.t <= t

\* the last observation at or before row t
AsOf(series, t) ==
    LET seen == {e \in series : e.t <= t}
    IN  (CHOOSE e \in seen : \A f \in seen : f.t <= e.t).v

\* x = days / 365.25
IsDaysOverYear(x, days) == x[2] > 0 /\ x[1] * 36525 = 100 * days * x[2]

IsInfinite(x) == x[2] = 0 /\ x[1] # 0

(* C15: for a row with two non-empty valid identifiers, identical ones     *)
(* included, roll_differentials is never zero and has magnitude at least   *)
(* 20/365.25, and annualised_roll has no division by zero: no entry of it  *)
(* is infinite, and a row with a raw roll has a finite annualised roll.    *)
C15_NeverZero ==
    /\ (roll_pc = "returned" /\ roll_op = "roll_differentials") =>
          \A i \in Rows :
             BothIdents(i) =>
                /\ Observed(roll_out, i)
                /\ AsOf(roll_out, i)[2] > 0
                /\ Abs(AsOf(roll_out, i)[1]) * 36525
                      >= 2000 * AsOf(roll_out, i)[2]
    /\ (roll_pc = "returned" /\ roll_op = "annualised_roll") =>
          /\ \A e \in roll_out : ~IsInfinite(e.v)
          /\ (/\ Len(carry_table) = 1
              /\ BothIdents(1)
              /\ ~IsNaN(carry_table[1].CARRY)
              /\ carry_table[1].PRICE # carry_table[1].CARRY) =>
                 \E e \in roll_out : e.t = 1 /\ e.v[2] > 0 /\ e.v[1] # 0

C15_Witness ==
    /\ roll_pc = "returned"
    /\ roll_op = "annualised_roll"
    /\ Len(carry_table) = 1
    /\ carry_table[1].PRICE_CONTRACT = carry_table[1].CARRY_CONTRACT
    /\ carry_table[1].PRICE_CONTRACT = Ident201812
    /\ carry_table[1].PRICE = Float(2)
    /\ carry_table[1].CARRY = Float(1)
    /\ roll_out = {[t |-> 1, v |-> <<1461, 80>>]}

(* C16: with PRICE_CONTRACT "201903" and CARRY_CONTRACT "201812" at every  *)
(* row roll_differentials is -90/365.25 at every row; in general a row     *)
(* whose expiries are 20 days or more apart has the unclamped difference,  *)
(* carry minus price, in days over 365.25.                                 *)
C16_EndToEnd ==
    (roll_pc # "call" /\ roll_op = "roll_differentials") =>
        /\ (\A i \in Rows :
               /\ carry_table[i].PRICE_CONTRACT = Ident201903
               /\ carry_table[i].CARRY_CONTRACT = Ident201812) =>
              /\ roll_pc = "returned"
              /\ \A i \in Rows :
                    /\ Observed(roll_out, i)
                    /\ IsDaysOverYear(AsOf(roll_out, i), -90)
        /\ roll_pc = "returned" =>
              \A i \in Rows :
                 (/\ WellFormed(carry_table[i].PRICE_CONTRACT)
                  /\ WellFormed(carry_table[i].CARRY_CONTRACT)
                  /\ Abs(UnflooredOf(carry_table[i])) >= 20) =>
                     /\ Observed(roll_out, i)
                     /\ IsDaysOverYear(AsOf(roll_out, i),
                                       UnflooredOf(carry_table[i]))

C16_Witness ==
    /\ roll_pc = "returned"
    /\ roll_op = "roll_differentials"
    /\ Len(carry_table) = 2
    /\ \A i \in Rows :
          /\ carry_table[i].PRICE_CONTRACT = Ident201903
          /\ carry_table[i].CARRY_CONTRACT = Ident201812
    /\ carry_table[1].PRICE # carry_table[2].PRICE
    /\ \E e \in roll_out : e.v = <<-360, 1461>>

(* C17: a row where PRICE equals CARRY exactly has NaN in                  *)
(* raw_futures_roll at its timestamp, and no entry of raw_futures_roll is  *)
(* exactly zero.                                                           *)
C17_ZeroRollSuppressed ==
    (roll_pc # "call" /\ roll_op = "raw_futures_roll") =>
        /\ roll_pc = "returned"
        /\ \A e \in roll_out : ~IsZero(e.v)
        /\ \A i \in Rows :
              (~IsNaN(carry_table[i].PRICE)
               /\ carry_table[i].PRICE = carry_table[i].CARRY) =>
                  /\ Observed(roll_out, i)
                  /\ IsNaN(AsOf(roll_out, i))

C17_Witness ==
    /\ roll_pc = "returned"
    /\ roll_op = "raw_futures_roll"
    /\ Len(carry_table) = 2
    /\ carry_table[1].PRICE # carry_table[1].CARRY
    /\ ~IsNaN(carry_table[1].CARRY)
    /\ carry_table[2].PRICE = carry_table[2].CARRY
    /\ [t |-> 2, v |-> NaN] \in roll_out

----------------------------------------------------------------------------
(* What the data-method properties are stated over *)

CostKeys ==
    {"price_slippage", "value_of_block_commission", "percentage_cost",
     "value_of_pertrade_commission"}

CostRowsFor(code) == {r \in cost_file.rows : r.Instrument = code}

(* C19: with the trading-hours file missing get_all_trading_hours returns  *)
(* the 'unavailable' marker and logs a warning, and get_raw_daily_data     *)
(* and get_raw_price, called for an instrument whose data file exists,     *)
(* return without raising.                                                 *)
C19_HoursFileMissing ==
    (io_pc # "call" /\ ~hours_file.exists) =>
        /\ io_op = "get_all_trading_hours" =>
              /\ io_pc = "returned"
              /\ io_ret = "None"
              /\ io_warnings # <<>>
        /\ (io_op \in {"get_raw_daily_data", "get_raw_price"}
            /\ instrument_code \in data_files) =>
              io_pc = "returned"

(* C20: get_raw_cost_data returns a dict with exactly the keys             *)
(* price_slippage, value_of_block_commission, percentage_cost and          *)
(* value_of_pertrade_commission and never raises; all four are 0.0 when    *)
(* the cost file is missing or has no row for the instrument, and          *)
(* otherwise they are the row's Slippage, PerBlock, Percentage and         *)
(* PerTrade, in that order.                                                *)
C20_CostData ==
    (io_pc # "call" /\ io_op = "get_raw_cost_data") =>
        /\ io_pc = "returned"
        /\ {p[1] : p \in cost_out} = CostKeys
        /\ Cardinality(cost_out) = 4
        /\ IF ~cost_file.exists \/ CostRowsFor(instrument_code) = {}
           THEN \A p \in cost_out : p[2] = 0
           ELSE \A r \in CostRowsFor(instrument_code) :
                   /\ <<"price_slippage", r.Slippage>> \in cost_out
                   /\ <<"value_of_block_commission", r.PerBlock>> \in cost_out
                   /\ <<"percentage_cost", r.Percentage>> \in cost_out
                   /\ <<"value_of_pertrade_commission", r.PerTrade>>
                         \in cost_out

C20_Witness ==
    /\ io_pc = "returned"
    /\ io_op = "get_raw_cost_data"
    /\ cost_file.exists
    /\ instrument_code = "US10"
    /\ [Instrument |-> "US10", Slippage |-> 1, PerBlock |-> 2,
        Percentage |-> 1, PerTrade |-> 2] \in cost_file.rows
    /\ <<"value_of_block_commission", 2>> \in cost_out
    /\ <<"percentage_cost", 1>> \in cost_out

----------------------------------------------------------------------------
(* What the cache properties are stated over *)

\* the calculation function each accessor hands to calc_or_cache
FuncOf ==
    [a \in Accessors |->
        CASE a = "get_instrument_raw_carry_data" -> "_calc_raw_carry"
          [] a = "raw_futures_roll"              -> "_calc_raw_futures_roll"
          [] a = "roll_differentials"            -> "_calc_roll_differentials"
          [] a = "annualised_roll"               -> "_calc_annualised_roll"
          [] a = "daily_annualised_roll"         -> "_calc_daily_ann_roll"
          [] a = "daily_denominator_price"       -> "_daily_denominator_prices"]

\* the computation-name each accessor hands to calc_or_cache
ItemNameOf ==
    [a \in Accessors |->
        IF a = "get_instrument_raw_carry_data"
        THEN "instrument_raw_carry_data" ELSE a]

NothingRaisedFor(k) == \A f \in CalcFunctions : raised[f][k] = 0

(* C1 as stated: each calculation function is invoked at most once per     *)
(* (computation-name, instrument), and the DataSource carry table is read  *)
(* at most once per instrument, over any sequence of accessor calls.       *)
C1_Original ==
    /\ \A f \in CalcFunctions, k \in Instruments : calls[f][k] <= 1
    /\ \A k \in Instruments : ds_reads[k] <= 1

(* C1 as amended: each calculation function returns at most once per       *)
(* (computation-name, instrument): it is invoked at most once more than    *)
(* the number of its invocations that raised, and likewise the DataSource  *)
(* read; when nothing raised for k and annualised_roll(k) is cached, the   *)
(* raw_futures_roll and roll_differentials calculations ran once each and  *)
(* the DataSource was read once for k.                                     *)
C1_AtMostOnce ==
    /\ \A f \in CalcFunctions, k \in Instruments :
           calls[f][k] <= 1 + raised[f][k]
    /\ \A k \in Instruments :
           ds_reads[k] <= 1 + raised["_calc_raw_carry"][k]
    /\ \A k \in Instruments :
           (NothingRaisedFor(k) /\ cache["annualised_roll"][k] # NoEntry) =>
               /\ calls["_calc_raw_futures_roll"][k] = 1
               /\ calls["_calc_roll_differentials"][k] = 1
               /\ calls["_calc_annualised_roll"][k] = 1
               /\ ds_reads[k] = 1

C1_Witness ==
    /\ last_call.accessor = "daily_annualised_roll"
    /\ last_call.outcome = "returned"
    /\ NothingRaisedFor(last_call.key)
    /\ calls["_calc_annualised_roll"][last_call.key] = 1
    /\ calls["_calc_raw_futures_roll"][last_call.key] = 1
    /\ ds_reads[last_call.key] = 1
    /\ cache["daily_denominator_price"][last_call.key] # NoEntry

(* C2: when a calculation raises during an accessor call the call raises   *)
(* to its caller, no entry is stored for the calculation that raised nor   *)
(* for the accessor called, and calling the same accessor again runs its   *)
(* calculation again.                                                      *)
C2_NoEntryOnRaise ==
    [][ /\ \A f \in CalcFunctions, k \in Instruments :
               raised'[f][k] > raised[f][k] =>
                   /\ last_call'.outcome = "raised"
                   /\ last_call'.key = k
                   /\ \E a \in Accessors :
                          FuncOf[a] = f /\ cache'[ItemNameOf[a]][k] = NoEntry
        /\ last_call'.outcome = "raised" =>
               /\ cache'[ItemNameOf[last_call'.accessor]][last_call'.key] = NoEntry
               /\ raised'[FuncOf[last_call'.accessor]][last_call'.key]
                      = raised[FuncOf[last_call'.accessor]][last_call'.key] + 1
               /\ last_call'.value = NoEntry
        /\ (/\ last_call.outcome = "raised"
            /\ last_call'.accessor = last_call.accessor
            /\ last_call'.key = last_call.key) =>
               calls'[FuncOf[last_call.accessor]][last_call.key]
                   = calls[FuncOf[last_call.accessor]][last_call.key] + 1
      ]_vars

C2_Witness ==
    /\ last_call.accessor = "annualised_roll"
    /\ last_call.outcome = "returned"
    /\ raised["_calc_annualised_roll"][last_call.key] = 1
    /\ raised["_calc_raw_carry"][last_call.key] = 1
    /\ calls["_calc_annualised_roll"][last_call.key] = 2

(* C21: an accessor call for instrument key A reads the DataSource only  *)
(* for A and creates cache entries only under A: the entries, the          *)
(* calculation counts and the DataSource reads of every other key B are    *)
(* unchanged; and every cached or returned value was computed from the     *)
(* DataSource table of the key it is cached or returned for.               *)
C21_OtherKeysUntouched ==
    [][ /\ \A b \in Instruments \ {last_call'.key} :
              /\ ds_reads'[b] = ds_reads[b]
              /\ \A n \in CalcNames : cache'[n][b] = cache[n][b]
              /\ \A f \in CalcFunctions : calls'[f][b] = calls[f][b]
        /\ last_call'.outcome = "returned" =>
              last_call'.value[1] = last_call'.key
        /\ \A n \in CalcNames, k \in Instruments :
              cache'[n][k] # NoEntry => cache'[n][k][1] = k
      ]_vars

C21_Witness ==
    /\ last_call.accessor = "daily_annualised_roll"
    /\ last_call.key = "US10"
    /\ last_call.outcome = "returned"
    /\ ds_reads["US10"] = 1
    /\ cache["roll_differentials"]["US10"] # NoEntry
    /\ cache["roll_differentials"]["EDOLLAR"] # NoEntry
    /\ cache["annualised_roll"]["EDOLLAR"] = NoEntry

\* the accessors each accessor calls, as the claim draws the graph
C22_CallGraph ==
    [n \in CalcNames |->
        CASE n = "instrument_raw_carry_data" -> {}
          [] n = "raw_futures_roll"          -> {"instrument_raw_carry_data"}
          [] n = "roll_differentials"        -> {"instrument_raw_carry_data"}
          [] n = "annualised_roll"           -> {"roll_differentials",
                                                 "raw_futures_roll"}
          [] n = "daily_annualised_roll"     -> {"annualised_roll"}
          [] n = "daily_denominator_price"   -> {"instrument_raw_carry_data"}]

CacheIsEmpty ==
    \A n \in CalcNames, k \in Instruments : cache[n][k] = NoEntry

Populated(c, k) == {n \in CalcNames : c[n][k] # NoEntry}

(* C22: an accessor call stores each computation-name at most once, and    *)
(* only after every entry it depends on is cached: the calls follow an     *)
(* acyclic graph and end.  daily_annualised_roll(k) on an empty cache,     *)
(* nothing raising, returns with exactly instrument_raw_carry_data,        *)
(* roll_differentials, raw_futures_roll, annualised_roll and               *)
(* daily_annualised_roll populated for k.                                  *)
C22_AcyclicPopulation ==
    [][ LET st == last_call'.stored
            k  == last_call'.key
        IN  /\ Len(st) <= Cardinality(CalcNames)
            /\ \A i, j \in 1..Len(st) : st[i] = st[j] => i = j
            /\ \A i \in 1..Len(st) :
                  \A d \in C22_CallGraph[st[i]] :
                     \/ cache[d][k] # NoEntry
                     \/ \E j \in 1..(i - 1) : st[j] = d
            /\ (/\ CacheIsEmpty
                /\ last_call'.accessor = "daily_annualised_roll"
                /\ raised' = raised) =>
                   /\ last_call'.outcome = "returned"
                   /\ Populated(cache', k) =
                         {"instrument_raw_carry_data", "roll_differentials",
                          "raw_futures_roll", "annualised_roll",
                          "daily_annualised_roll"}
                   /\ {st[i] : i \in 1..Len(st)} = Populated(cache', k)
                   /\ st[Len(st)] = "daily_annualised_roll"
      ]_vars

C22_Witness ==
    /\ last_call.accessor = "daily_annualised_roll"
    /\ last_call.outcome = "returned"
    /\ Len(last_call.stored) = 5
    /\ last_call.stored[1] = "instrument_raw_carry_data"
    /\ last_call.stored[4] = "annualised_roll"
    /\ \A k \in Instruments \ {last_call.key} : Populated(cache, k) = {}

(* C23: computing a derived quantity never changes a cached value: an     *)
(* entry that is cached before an accessor call holds the same value       *)
(* after it, and the cached carry table of k is the table the DataSource   *)
(* supplied for k, also after raw_futures_roll replaced zeros by NaN.      *)
C23_UpstreamUnchanged ==
    [][ /\ \A n \in CalcNames, k \in Instruments :
              cache[n][k] # NoEntry => cache'[n][k] = cache[n][k]
        /\ \A k \in Instruments :
              cache'["instrument_raw_carry_data"][k]
                  \in {NoEntry, <<k, "carrydata">>}
      ]_vars

C23_Witness ==
    /\ last_call.accessor = "raw_futures_roll"
    /\ last_call.outcome = "returned"
    /\ last_call.stored = <<"raw_futures_roll">>
    /\ cache["instrument_raw_carry_data"][last_call.key]
          = <<last_call.key, "carrydata">>
    /\ cache["daily_denominator_price"][last_call.key] # NoEntry
    /\ cache["roll_differentials"][last_call.key] # NoEntry

\* the computation-name an accessor of the stage stores under
StageItemName(a) ==
    IF a \in PassThroughs THEN PassThroughItemName[a] ELSE ItemNameOf[a]

(* C24: the computation-names the accessors of FuturesRawData hand to      *)
(* calc_or_cache are pairwise distinct, and an accessor called after a     *)
(* different accessor for the same key returns what is stored under its    *)
(* own name, never the value the other accessor returned.                  *)
C24_DistinctNames ==
    [][ /\ \A a, b \in StageAccessors :
              a # b => StageItemName(a) # StageItemName(b)
        /\ last_call'.outcome = "returned" =>
              cache'[StageItemName(last_call'.accessor)][last_call'.key]
                  = last_call'.value
        /\ (/\ last_call.outcome = "returned"
            /\ last_call'.outcome = "returned"
            /\ last_call'.key = last_call.key
            /\ last_call'.accessor # last_call.accessor) =>
               last_call'.value # last_call.value
      ]_vars

C24_Witness ==
    /\ stage_calls = 2
    /\ last_call.accessor = "get_raw_close"
    /\ last_call.outcome = "returned"
    /\ cache["raw_data_prices"][last_call.key] # NoEntry
    /\ cache["raw_close_prices"][last_call.key] # NoEntry
    /\ cache["raw_close_prices"][last_call.key]
          # cache["raw_data_prices"][last_call.key]

(* C25: every name FuturesRawData.__init__ registers as protected is the   *)
(* computation-name under which an accessor of the stage stores its        *)
(* cache entry.                                                            *)
C25_ProtectedAreItemNames ==
    \A p \in protected : \E a \in StageAccessors : StageItemName(a) = p

(* C26: a row whose PRICE_CONTRACT or CARRY_CONTRACT is the empty string  *)
(* never makes roll_differentials or annualised_roll raise, whatever the   *)
(* other identifier is: the calculation raises only for a row with two     *)
(* non-empty identifiers one of which is malformed, and when it returns    *)
(* the row's value is NaN.                                                 *)
C26_EmptyIdentifier ==
    (roll_pc # "call" /\ roll_op \in {"roll_differentials", "annualised_roll"}) =>
        /\ roll_pc = "raised" =>
              \E i \in Rows :
                 /\ BothIdents(i)
                 /\ \/ ~WellFormed(carry_table[i].PRICE_CONTRACT)
                    \/ ~WellFormed(carry_table[i].CARRY_CONTRACT)
        /\ roll_pc = "returned" =>
              \A i \in Rows :
                 ~BothIdents(i) =>
                    /\ Observed(roll_out, i)
                    /\ IsNaN(AsOf(roll_out, i))

C26_Witness ==
    /\ roll_pc = "returned"
    /\ roll_op = "annualised_roll"
    /\ Len(carry_table) = 2
    /\ BothIdents(1)
    /\ carry_table[2].PRICE_CONTRACT = EmptyStr
    /\ ~WellFormed(carry_table[2].CARRY_CONTRACT)
    /\ carry_table[2].CARRY_CONTRACT # EmptyStr
    /\ carry_table[2].PRICE # carry_table[2].CARRY
    /\ ~IsNaN(carry_table[2].CARRY)
    /\ [t |-> 2, v |-> NaN] \in roll_out
    /\ \E e \in roll_out : e.t = 1 /\ ~IsNaN(e.v)

====
